---- MODULE Spec2Model ----
(***************************************************************************)
(* Model of eolearn/geometry/data_transform.py: the tasks VectorToRaster   *)
(* (burning polygons into a raster feature of an EOPatch) and              *)
(* RasterToVector (tracing connected components of a raster mask into an   *)
(* attributed geometry table).                                             *)
(*                                                                         *)
(* Arrays are numpy arrays: a shape (sequence of dimensions) and the       *)
(* values in row-major (C) order, so that squeeze, newaxis and slicing are *)
(* modelled by what they do to the shape and to the flat data.             *)
(*                                                                         *)
(* Geometry lives on a lattice of world cells.  The bounding box of the    *)
(* EOPatch covers WindowCols; OutsideCols lie at a positive distance       *)
(* outside the bounding box.  A polygon is the set of world cells it       *)
(* covers (an interval of columns, over the full height of the window).    *)
(***************************************************************************)
EXTENDS Integers, Sequences, FiniteSets, TLC

\* eopatch: the host EOPatch; v2r, r2v: the constructed tasks; args: the features
\* argument of the last RasterToVector constructor call; op: the last operation;
\* err: the error it raised; runs: executes so far; visited: the feature kinds
\* RasterToVector.execute has taken up
VARIABLES eopatch, v2r, r2v, args, op, err, runs, visited

vars == <<eopatch, v2r, r2v, args, op, err, runs, visited>>

-----------------------------------------------------------------------------
(* Bounds of the model *)

MaxPolys == 2
MaxRuns == 2
MaxValue == 1

\* numpy.uint8, the default raster_dtype: values wrap modulo 2^8
Uint8Modulus == 256

WindowCols == {1, 2}
OutsideCols == {3}
WorldCols == WindowCols \cup OutsideCols
WinW == Cardinality(WindowCols)

Heights == {1, 2}
Widths == {1, 2}

NoError == "none"

-----------------------------------------------------------------------------
(* numpy arrays *)

RECURSIVE Prod(_)
Prod(shape) == IF shape = <<>> THEN 1 ELSE Head(shape) * Prod(Tail(shape))

Array(shape, data, dtype) == [shape |-> shape, data |-> data, dtype |-> dtype]

\* np.ones(shape, dtype) * fill
Full(shape, fill, dtype) == Array(shape, [i \in 1..Prod(shape) |-> fill], dtype)

\* ndarray.squeeze(): every dimension of size 1 is dropped, the data is shared
Squeeze(a) == [a EXCEPT !.shape = SelectSeq(a.shape, LAMBDA d : d # 1)]

\* a[..., np.newaxis]: a trailing dimension of size 1, the data is shared
NewAxis(a) == [a EXCEPT !.shape = Append(a.shape, 1)]

-----------------------------------------------------------------------------
(* VectorToRaster *)

Polygons == {a..b : a \in WorldCols, b \in WorldCols} \ {{}}

RECURSIVE SeqsUpTo(_, _)
SeqsUpTo(S, n) ==
    IF n = 0 THEN {<<>>}
    ELSE LET shorter == SeqsUpTo(S, n - 1)
         IN shorter \cup {Append(s, x) : s \in {t \in shorter : Len(t) = n - 1}, x \in S}

VectorDatasets == SeqsUpTo(Polygons, MaxPolys)

\* eopatch.bbox.get_geometry()
BBoxPoly == WindowCols

IntElem(n) == [int |-> TRUE, n |-> n, s |-> ""]
NameElem(s) == [int |-> FALSE, n |-> 0, s |-> s]
TupleOf(elems) == [tuple |-> TRUE, elems |-> elems]
NotATuple == [tuple |-> FALSE, elems |-> <<>>]

RasterShapes ==
    {TupleOf(<<IntElem(h), IntElem(w)>>) : h \in Heights, w \in Widths}
    \cup {TupleOf(<<NameElem("mask_timeless"), NameElem("REF")>>),
          TupleOf(<<NameElem("mask_timeless"), NameElem("NOPE")>>),
          TupleOf(<<IntElem(2), IntElem(2), IntElem(1)>>),
          NotATuple}

TimelessTypes == {"mask_timeless", "vector_timeless"}

\* FeatureParser applied to an eopatch: the feature must be a (type, name)
\* pair naming a feature the eopatch holds
ParseFeature(elems, ep) ==
    IF \A i \in 1..2 : ~elems[i].int /\ <<elems[1].s, elems[2].s>> \in DOMAIN ep.features
    THEN [ok |-> TRUE, key |-> <<elems[1].s, elems[2].s>>]
    ELSE [ok |-> FALSE, key |-> <<"", "">>]

\* EOPatch.get_spatial_dimension
GetSpatialDimension(ep, key) ==
    LET shape == ep.features[key].shape
    IN IF key[1] \in TimelessTypes THEN <<shape[1], shape[2]>> ELSE <<shape[2], shape[3]>>

\* VectorToRaster._get_submap
GetSubmap(task, ep) ==
    LET data == task.vector_data
        keep == SelectSeq(data, LAMBDA g : g \cap BBoxPoly # {})
    IN [i \in 1..Len(keep) |-> keep[i] \cap BBoxPoly]

\* a _get_shape that falls back to a default shape instead of raising
GetShapeDefault(task, ep) ==
    LET rs == task.raster_shape
    IN IF rs.tuple /\ Len(rs.elems) = 2 /\ rs.elems[1].int /\ rs.elems[2].int
       THEN [ok |-> TRUE, shape |-> <<rs.elems[1].n, rs.elems[2].n>>]
       ELSE IF rs.tuple /\ Len(rs.elems) = 2 /\ ParseFeature(rs.elems, ep).ok
       THEN [ok |-> TRUE, shape |-> GetSpatialDimension(ep, ParseFeature(rs.elems, ep).key)]
       ELSE [ok |-> TRUE, shape |-> <<1, 1>>]

\* VectorToRaster._get_shape
GetShape(task, ep) ==
    LET rs == task.raster_shape
    IN IF rs.tuple /\ Len(rs.elems) = 2
       THEN IF rs.elems[1].int /\ rs.elems[2].int
            THEN [ok |-> TRUE, shape |-> <<rs.elems[1].n, rs.elems[2].n>>]
            ELSE LET f == ParseFeature(rs.elems, ep)
                 IN IF f.ok
                    THEN [ok |-> TRUE, shape |-> GetSpatialDimension(ep, f.key)]
                    ELSE [ok |-> FALSE, shape |-> <<0, 0>>]
       ELSE [ok |-> FALSE, shape |-> <<0, 0>>]

\* rasterio.transform.from_bounds(*eopatch.bbox, width, height)
FromBounds(width, height) == [width |-> width, height |-> height]

\* the world columns under pixel column c of a grid of the transform's width
PixelCols(c, transform) ==
    {x \in WindowCols : ((x - 1) * transform.width) \div WinW = c - 1}

\* whether pixel (r, c) is burned by a geometry: the pixel lies in the
\* transform's grid and, with all_touched, the geometry touches it, without,
\* the pixel's centre lies inside the geometry
Burned(geom, r, c, transform, all_touched) ==
    LET blk == PixelCols(c, transform)
    IN /\ r <= transform.height
       /\ blk # {}
       /\ IF all_touched THEN blk \cap geom # {} ELSE blk \subseteq geom

MergeValue(old, value, merge_alg) ==
    IF merge_alg = "add" THEN (old + value) % Uint8Modulus ELSE value

RECURSIVE BurnAll(_, _, _, _, _)
BurnAll(shapes, out, transform, all_touched, merge_alg) ==
    IF shapes = <<>> THEN out
    ELSE LET s == Head(shapes)
             H == out.shape[1]
             W == out.shape[2]
             burnt == [out EXCEPT !.data =
                        [i \in 1..(H * W) |->
                           LET r == ((i - 1) \div W) + 1
                               c == ((i - 1) % W) + 1
                           IN IF Burned(s.geom, r, c, transform, all_touched)
                              THEN MergeValue(out.data[i], s.value, merge_alg)
                              ELSE out.data[i]]]
         IN BurnAll(Tail(shapes), burnt, transform, all_touched, merge_alg)

\* rasterio.features.rasterize(shapes, out=, transform=, **params): burns the
\* shapes in order into the 2-D array out; an out that is not 2-D is refused
Rasterize(shapes, out, transform, all_touched, merge_alg) ==
    IF Len(out.shape) # 2
    THEN [ok |-> FALSE, out |-> out]
    ELSE [ok |-> TRUE, out |-> BurnAll(shapes, out, transform, all_touched, merge_alg)]

\* bbox_map.cascaded_union.buffer(0)
CascadedUnion(bbox_map) == UNION {bbox_map[i] : i \in 1..Len(bbox_map)}

\* shapes handed to rasterize polygon by polygon instead of as their union
RasterizeShapesEach(task, bbox_map) ==
    [i \in 1..Len(bbox_map) |-> [geom |-> bbox_map[i], value |-> task.raster_value]]

\* the shapes handed to rasterize: the union of the clipped polygons, once
RasterizeShapes(task, bbox_map) ==
    <<[geom |-> CascadedUnion(bbox_map), value |-> task.raster_value]>>

\* **self.params
AllTouched(task) == task.all_touched

\* params that lose the caller's merge algorithm
MergeAlgAlwaysAdd(task) == "add"

MergeAlg(task) == task.merge_alg

\* the grid that is burned into: the squeezed target if the eopatch holds it,
\* otherwise a new grid filled with no_data_value
BaseRaster(task, ep, height, width) ==
    IF task.feature \in DOMAIN ep.features
    THEN Squeeze(ep.features[task.feature])
    ELSE Full(<<height, width>>, task.no_data_value, task.raster_dtype)

SetFeature(ep, key, value) ==
    [ep EXCEPT !.features =
        [k \in DOMAIN ep.features \cup {key} |->
            IF k = key THEN value ELSE ep.features[k]]]

\* VectorToRaster.execute
VectorToRasterExecute(task, ep) ==
    LET bbox_map == GetSubmap(task, ep)
        shp == GetShape(task, ep)
    IN IF ~shp.ok THEN [eopatch |-> ep, err |-> "ValueError"]
       ELSE LET height == shp.shape[1]
                width == shp.shape[2]
                data_transform == FromBounds(width, height)
                raster == BaseRaster(task, ep, height, width)
                res == IF bbox_map # <<>>
                       THEN Rasterize(RasterizeShapes(task, bbox_map), raster,
                                      data_transform, AllTouched(task), MergeAlg(task))
                       ELSE [ok |-> TRUE, out |-> raster]
            IN IF ~res.ok THEN [eopatch |-> ep, err |-> "RasterizeError"]
               ELSE [eopatch |-> SetFeature(ep, task.feature, NewAxis(res.out)),
                     err |-> NoError]

NoTask == [kind |-> "none"]

TargetKey == <<"mask_timeless", "T">>
RefKey == <<"mask_timeless", "REF">>

\* VectorToRaster.__init__
VectorToRasterInit(feature, vector_data, raster_value, raster_shape, no_data_value, params) ==
    [kind |-> "VectorToRaster", feature |-> feature, vector_data |-> vector_data,
     raster_value |-> raster_value, raster_shape |-> raster_shape,
     raster_dtype |-> "uint8", no_data_value |-> no_data_value,
     all_touched |-> params.all_touched, merge_alg |-> params.merge_alg]

ExistingShapes == {<<2, 2, 1>>, <<1, 2, 1>>}

ExistingTargets ==
    UNION {{Array(s, d, "uint8") : d \in [1..Prod(s) -> 0..1]} : s \in ExistingShapes}

V2RHosts ==
    LET ref == (RefKey :> Full(<<2, 2, 1>>, 0, "uint8"))
    IN {[features |-> ref, timestamp |-> <<>>, crs |-> "32633"]}
       \cup {[features |-> ref @@ (TargetKey :> a), timestamp |-> <<>>, crs |-> "32633"] :
               a \in ExistingTargets}

InitV2R ==
    /\ eopatch \in V2RHosts
    /\ v2r = NoTask
    /\ r2v = NoTask
    /\ args = <<>>
    /\ op = "new"
    /\ err = NoError
    /\ runs = 0
    /\ visited = {}

V2RConstruct ==
    /\ op = "new"
    /\ \E vd \in VectorDatasets, rv \in 1..MaxValue, rs \in RasterShapes,
          at \in BOOLEAN, ma \in {"replace", "add"} :
          v2r' = VectorToRasterInit(TargetKey, vd, rv, rs, 0,
                                    [all_touched |-> at, merge_alg |-> ma])
    /\ op' = "v2r_init"
    /\ UNCHANGED <<eopatch, r2v, args, err, runs, visited>>

V2RExecute ==
    /\ v2r # NoTask
    /\ runs < MaxRuns
    /\ err = NoError
    /\ LET res == VectorToRasterExecute(v2r, eopatch)
       IN /\ eopatch' = res.eopatch
          /\ err' = res.err
    /\ op' = "v2r_execute"
    /\ runs' = runs + 1
    /\ UNCHANGED <<v2r, r2v, args, visited>>

NextV2R == V2RConstruct \/ V2RExecute

SpecV2R == InitV2R /\ [][NextV2R]_vars

-----------------------------------------------------------------------------
(* RasterToVector *)

MaxTime == 3
MaxFeatures == 2

NoneValue == "None"

\* FeatureType.is_spatial, is_discrete, is_timeless
IsSpatial(ft) == ft \in {"data", "mask", "data_timeless", "mask_timeless", "vector", "vector_timeless"}

IsDiscrete(ft) == ft \in {"mask", "mask_timeless", "label", "label_timeless"}

IsTimeless(ft) == ft \in {"data_timeless", "mask_timeless", "label_timeless", "vector_timeless"}

\* the dtypes rasterio.features.shapes accepts
SupportedDtypes == {"int16", "int32", "uint8", "uint16", "float32"}

\* ndarray.astype(dtype)
AsType(a, dtype) ==
    IF dtype = "uint8"
    THEN Array(a.shape, [i \in DOMAIN a.data |-> a.data[i] % Uint8Modulus], dtype)
    ELSE Array(a.shape, a.data, dtype)

\* raster[time_idx, ...]
TimeSlice(a, time_idx) ==
    LET n == Prod(Tail(a.shape))
    IN Array(Tail(a.shape), [i \in 1..n |-> a.data[(time_idx - 1) * n + i]], a.dtype)

\* raster[..., idx] of a (height, width, channels) array
Channel(a, idx) ==
    LET H == a.shape[1]
        W == a.shape[2]
        C == a.shape[3]
    IN Array(<<H, W>>, [i \in 1..(H * W) |-> a.data[(i - 1) * C + idx]], a.dtype)

NoMask == [none |-> TRUE]

\* mask = np.zeros(raster.shape, bool); mask[raster == value] = True
ValueMask(raster, values) ==
    [none |-> FALSE, shape |-> raster.shape,
     data |-> [i \in DOMAIN raster.data |->
                 \E k \in 1..Len(values) : raster.data[i] = values[k]]]

MaskChannel(mask, idx) ==
    IF mask.none THEN NoMask
    ELSE [none |-> FALSE, shape |-> <<mask.shape[1], mask.shape[2]>>,
          data |-> [i \in 1..(mask.shape[1] * mask.shape[2]) |->
                      mask.data[(i - 1) * mask.shape[3] + idx]]]

\* pixels of a 2-D image, and the pixel at a row-major position
Pixel(i, W) == <<((i - 1) \div W) + 1, ((i - 1) % W) + 1>>

PixelIndex(p, W) == (p[1] - 1) * W + p[2]

Abs(x) == IF x < 0 THEN -x ELSE x

Adjacent(p, q, connectivity) ==
    LET dr == Abs(p[1] - q[1])
        dc == Abs(p[2] - q[2])
    IN IF connectivity = 8 THEN dr <= 1 /\ dc <= 1 /\ dr + dc > 0 ELSE dr + dc = 1

\* the unmasked pixels of an image
Unmasked(image, mask) ==
    {Pixel(i, image.shape[2]) : i \in {j \in DOMAIN image.data : mask.none \/ mask.data[j]}}

RECURSIVE Grow(_, _, _, _)
Grow(S, image, cand, connectivity) ==
    LET next == S \cup {q \in cand : \E p \in S : Adjacent(p, q, connectivity)}
    IN IF next = S THEN S ELSE Grow(next, image, cand, connectivity)

\* the maximal connected set of unmasked pixels of the value of p around p
Component(p, image, mask, connectivity) ==
    LET W == image.shape[2]
        same == {q \in Unmasked(image, mask) :
                    image.data[PixelIndex(q, W)] = image.data[PixelIndex(p, W)]}
    IN Grow({p}, image, same, connectivity)

RECURSIVE Trace(_, _, _, _, _, _)
Trace(i, image, mask, connectivity, seen, acc) ==
    IF i > Len(image.data) THEN acc
    ELSE LET p == Pixel(i, image.shape[2])
         IN IF p \in seen \/ p \notin Unmasked(image, mask)
            THEN Trace(i + 1, image, mask, connectivity, seen, acc)
            ELSE LET comp == Component(p, image, mask, connectivity)
                 IN Trace(i + 1, image, mask, connectivity, seen \cup comp,
                          Append(acc, [geometry |-> comp, value |-> image.data[i]]))

\* rasterio.features.shapes(image, mask=, transform=, connectivity=): one
\* (geometry, value) per connected component of unmasked pixels of equal
\* value, in row-major order of discovery; an unsupported dtype is refused
Shapes(image, mask, transform, connectivity) ==
    IF image.dtype \notin SupportedDtypes
    THEN [ok |-> FALSE, list |-> <<>>]
    ELSE [ok |-> TRUE, list |-> Trace(1, image, mask, connectivity, {}, <<>>)]

\* the loop over the channels of _vectorize_single_raster: geo_list and
\* value_list, as one list of (geometry, value)
\* geo_list.append / value_list.append for the shapes of one channel, then
\* the later channels; an error of shapes ends the loop
AppendShapes(s, rest) ==
    IF ~s.ok THEN s
    ELSE IF ~rest.ok THEN rest
    ELSE [ok |-> TRUE, list |-> s.list \o rest.list]

RECURSIVE VectorizeChannels(_, _, _, _, _, _)
VectorizeChannels(idx, channels, raster, mask, data_transform, connectivity) ==
    IF idx > channels THEN [ok |-> TRUE, list |-> <<>>]
    ELSE AppendShapes(Shapes(Channel(raster, idx), MaskChannel(mask, idx),
                             data_transform, connectivity),
                      VectorizeChannels(idx + 1, channels, raster, mask,
                                        data_transform, connectivity))

\* a channel loop that stops after the first channel
ChannelRangeFirstOnly(raster) == 1

\* range(raster.shape[-1])
ChannelRange(raster) == raster.shape[Len(raster.shape)]

NoValue == -1
NoTime == -1

\* the GeoDataFrame of _vectorize_single_raster: the geometry column, the
\* value column if it has a name, the TIMESTAMP column if a timestamp is given
MakeFrame(task, res, crs, timestamp) ==
    LET withValue == task.value_column_name # NoneValue
        withTime == timestamp # NoTime
    IN IF ~res.ok THEN [ok |-> FALSE, table |-> <<>>]
       ELSE [ok |-> TRUE,
             table |->
               [columns |-> {"geometry"}
                            \cup (IF withValue THEN {task.value_column_name} ELSE {})
                            \cup (IF withTime THEN {"TIMESTAMP"} ELSE {}),
                rows |-> [i \in 1..Len(res.list) |->
                            [geometry |-> res.list[i].geometry,
                             value |-> IF withValue THEN res.list[i].value ELSE NoValue,
                             timestamp |-> timestamp]],
                crs |-> crs]]

\* the mask of _vectorize_single_raster: built only if self.values is truthy
BuildMask(task, raster) ==
    IF task.values.given /\ task.values.list # <<>>
    THEN ValueMask(raster, task.values.list)
    ELSE NoMask

\* RasterToVector._vectorize_single_raster
VectorizeSingleRaster(task, raster, data_transform, crs, timestamp) ==
    MakeFrame(task,
              VectorizeChannels(1, ChannelRange(raster), raster, BuildMask(task, raster),
                                data_transform, task.connectivity),
              crs, timestamp)

\* the list comprehension of execute over the time slices, in ascending
\* time_idx: eopatch.timestamp[time_idx] is read before the slice is vectorized
AppendFrame(one, rest) ==
    IF ~one.ok THEN [err |-> "ValueError", list |-> <<>>]
    ELSE IF rest.err # NoError THEN rest
    ELSE [err |-> NoError, list |-> <<one.table>> \o rest.list]

\* a time loop that stamps every slice with the first timestamp
RECURSIVE VectorizeTimeSlicesFirstStamp(_, _, _, _, _, _)
VectorizeTimeSlicesFirstStamp(time_idx, task, raster, data_transform, crs, timestamps) ==
    IF time_idx > raster.shape[1] THEN [err |-> NoError, list |-> <<>>]
    ELSE IF time_idx > Len(timestamps) THEN [err |-> "IndexError", list |-> <<>>]
    ELSE AppendFrame(VectorizeSingleRaster(task, TimeSlice(raster, time_idx),
                                           data_transform, crs, timestamps[1]),
                     VectorizeTimeSlicesFirstStamp(time_idx + 1, task, raster,
                                                   data_transform, crs, timestamps))

RECURSIVE VectorizeTimeSlices(_, _, _, _, _, _)
VectorizeTimeSlices(time_idx, task, raster, data_transform, crs, timestamps) ==
    IF time_idx > raster.shape[1] THEN [err |-> NoError, list |-> <<>>]
    ELSE IF time_idx > Len(timestamps) THEN [err |-> "IndexError", list |-> <<>>]
    ELSE AppendFrame(VectorizeSingleRaster(task, TimeSlice(raster, time_idx),
                                           data_transform, crs, timestamps[time_idx]),
                     VectorizeTimeSlices(time_idx + 1, task, raster, data_transform,
                                         crs, timestamps))

RECURSIVE ConcatRows(_)
ConcatRows(gpd_list) ==
    IF gpd_list = <<>> THEN <<>> ELSE Head(gpd_list).rows \o ConcatRows(Tail(gpd_list))

\* GeoDataFrame(pandas.concat(gpd_list, ignore_index=True), crs=gpd_list[0].crs)
Concat(gpd_list) ==
    [columns |-> UNION {gpd_list[i].columns : i \in 1..Len(gpd_list)},
     rows |-> ConcatRows(gpd_list),
     crs |-> gpd_list[1].crs]

\* eopatch[vector_ft][vector_fn] = self._vectorize_single_raster(...)
StoreTimeless(ep, key, one) ==
    IF ~one.ok THEN [eopatch |-> ep, err |-> "ValueError"]
    ELSE [eopatch |-> SetFeature(ep, key, one.table), err |-> NoError]

\* eopatch[vector_ft][vector_fn] = GeoDataFrame(pandas.concat(gpd_list, ...)):
\* pandas.concat refuses an empty list
StoreTemporal(ep, key, all) ==
    IF all.err # NoError THEN [eopatch |-> ep, err |-> all.err]
    ELSE IF all.list = <<>> THEN [eopatch |-> ep, err |-> "ValueError"]
    ELSE [eopatch |-> SetFeature(ep, key, Concat(all.list)), err |-> NoError]

\* if self.raster_dtype: raster = raster.astype(self.raster_dtype)
CastRaster(task, stored) ==
    IF task.raster_dtype # NoneValue THEN AsType(stored, task.raster_dtype) ELSE stored

\* the body of the loop of RasterToVector.execute for one feature
VectorizeFeature(task, f, ep) ==
    LET timeless == IsTimeless(f.ft)
        vector_ft == IF timeless THEN "vector_timeless" ELSE "vector"
        stored == ep.features[<<f.ft, f.name>>]
        height == IF timeless THEN stored.shape[1] ELSE stored.shape[2]
        width == IF timeless THEN stored.shape[2] ELSE stored.shape[3]
    IN IF timeless
       THEN StoreTimeless(ep, <<vector_ft, f.new_name>>,
                VectorizeSingleRaster(task, CastRaster(task, stored),
                                      FromBounds(width, height), ep.crs, NoTime))
       ELSE StoreTemporal(ep, <<vector_ft, f.new_name>>,
                VectorizeTimeSlices(1, task, CastRaster(task, stored),
                                    FromBounds(width, height), ep.crs, ep.timestamp))

\* RasterToVector.execute: the features in turn, each written to the eopatch
\* as soon as it is vectorized; an error ends the loop
RECURSIVE RasterToVectorExecute(_, _, _, _)

\* after one feature: an error leaves the loop, otherwise the next feature is
\* processed on the eopatch as written so far
NextFeature(task, features, one, seen) ==
    IF one.err # NoError
    THEN [eopatch |-> one.eopatch, err |-> one.err, visited |-> seen]
    ELSE RasterToVectorExecute(task, Tail(features), one.eopatch, seen)

RasterToVectorExecute(task, features, ep, seen) ==
    IF features = <<>> THEN [eopatch |-> ep, err |-> NoError, visited |-> seen]
    ELSE IF <<Head(features).ft, Head(features).name>> \notin DOMAIN ep.features
    THEN [eopatch |-> ep, err |-> "ValueError", visited |-> seen]
    ELSE NextFeature(task, features, VectorizeFeature(task, Head(features), ep),
                     seen \cup {Head(features).ft})

\* a check of the kind that forgets is_discrete
AcceptedKindSpatialOnly(feature_type) == IsSpatial(feature_type)

\* the check of RasterToVector.__init__ on the kind of a feature
AcceptedKind(feature_type) == IsSpatial(feature_type) /\ IsDiscrete(feature_type)

\* RasterToVector.__init__
RasterToVectorInit(features, values, value_column_name, raster_dtype, connectivity) ==
    IF \E i \in 1..Len(features) : ~AcceptedKind(features[i].ft)
    THEN [task |-> NoTask, err |-> "ValueError"]
    ELSE [task |-> [kind |-> "RasterToVector", features |-> features, values |-> values,
                    value_column_name |-> value_column_name,
                    raster_dtype |-> raster_dtype, connectivity |-> connectivity],
          err |-> NoError]

Feature(ft, name, new_name) == [ft |-> ft, name |-> name, new_name |-> new_name]

FeatureSpecs ==
    {Feature("mask_timeless", "A", "VA"), Feature("mask", "B", "VB"),
     Feature("data", "D", "VD")}

FeatureLists == SeqsUpTo(FeatureSpecs, MaxFeatures) \ {<<>>}

ValueFilters ==
    {[given |-> FALSE, list |-> <<>>], [given |-> TRUE, list |-> <<>>],
     [given |-> TRUE, list |-> <<1>>]}

ArraysOf(shape, cellValues, dtype) ==
    {Array(shape, d, dtype) : d \in [1..Prod(shape) -> cellValues]}

TimelessRasters ==
    ArraysOf(<<2, 2, 1>>, {0, 1}, "uint8") \cup ArraysOf(<<1, 2, 2>>, {0, 1}, "uint8")
    \cup ArraysOf(<<2, 2, 1>>, {0, 257}, "int64")

TemporalRasters ==
    UNION {ArraysOf(<<t, 1, 2, 1>>, {0, 1}, "uint8")
           \cup ArraysOf(<<t, 1, 1, 2>>, {0, 1}, "uint8") : t \in 0..MaxTime}

\* eopatch.timestamp: ascending, distinct
Timestamps(n) == [i \in 1..n |-> 100 + i]

R2VHost(a, b, n) ==
    [features |-> (<<"mask_timeless", "A">> :> a) @@ (<<"mask", "B">> :> b)
                  @@ (<<"data", "D">> :> Full(<<1, 1, 1, 1>>, 0, "float32")),
     timestamp |-> Timestamps(n),
     crs |-> "32633"]

R2VHosts ==
    {R2VHost(a, Full(<<1, 1, 2, 1>>, 0, "uint8"), MaxTime) : a \in TimelessRasters}
    \cup {R2VHost(Full(<<2, 2, 1>>, 0, "uint8"), b, n) :
            b \in TemporalRasters, n \in {MaxTime - 1, MaxTime}}

InitR2V ==
    /\ eopatch \in R2VHosts
    /\ v2r = NoTask
    /\ r2v = NoTask
    /\ args = <<>>
    /\ op = "new"
    /\ err = NoError
    /\ runs = 0
    /\ visited = {}

R2VConstruct ==
    /\ op = "new"
    /\ \E fs \in FeatureLists, vs \in ValueFilters, col \in {"VALUE", NoneValue},
          dt \in {NoneValue, "uint8"}, conn \in {4, 8} :
          LET res == RasterToVectorInit(fs, vs, col, dt, conn)
          IN r2v' = res.task /\ err' = res.err /\ args' = fs
    /\ op' = "r2v_init"
    /\ UNCHANGED <<eopatch, v2r, runs, visited>>

R2VReturn(res) ==
    /\ eopatch' = res.eopatch
    /\ err' = res.err
    /\ visited' = res.visited

R2VExecute ==
    /\ op = "r2v_init"
    /\ r2v # NoTask
    /\ R2VReturn(RasterToVectorExecute(r2v, r2v.features, eopatch, {}))
    /\ op' = "r2v_execute"
    /\ runs' = runs + 1
    /\ UNCHANGED <<v2r, r2v, args>>

NextR2V == R2VConstruct \/ R2VExecute

SpecR2V == InitR2V /\ [][NextR2V]_vars

-----------------------------------------------------------------------------
(* Claims about VectorToRaster *)

\* an execute step of the constructed task
V2RExecuted == op' = "v2r_execute" /\ runs' = runs + 1

\* the union of the polygons of the task clipped to the bounding box
ClippedUnion(task) ==
    UNION {task.vector_data[i] \cap WindowCols : i \in 1..Len(task.vector_data)}

\* raster_shape is a pair of integers or names a spatial feature of the host
ShapeResolvable(task, ep) ==
    LET e == task.raster_shape.elems
    IN /\ task.raster_shape.tuple
       /\ Len(e) = 2
       /\ \/ e[1].int /\ e[2].int
          \/ ~e[1].int /\ ~e[2].int /\ <<e[1].s, e[2].s>> \in DOMAIN ep.features

\* C1: after a successful VectorToRaster.execute the target feature stored in
\* the host has shape (height, width, 1), (height, width) being the shape
\* resolved from raster_shape, whether the target was created by the call or
\* existed before with any shape.
C1_TargetShape ==
    (op = "v2r_execute" /\ err = NoError) =>
        /\ TargetKey \in DOMAIN eopatch.features
        /\ eopatch.features[TargetKey].shape = GetShape(v2r, eopatch).shape \o <<1>>

\* C2: a successful execute yields the grid obtained by burning the union of
\* the clipped polygons once onto the base grid (the existing target, or a
\* grid of the outside value): cells outside the union keep the base value,
\* cells inside get the inside value merged in exactly once.
C2_UnionBurnedOnce ==
    [][(V2RExecuted /\ err' = NoError) =>
        LET existed == TargetKey \in DOMAIN eopatch.features
            shp == GetShape(v2r, eopatch).shape
            base == IF existed THEN eopatch.features[TargetKey].data
                    ELSE [i \in 1..(shp[1] * shp[2]) |-> v2r.no_data_value]
            new == eopatch'.features[TargetKey]
            union == ClippedUnion(v2r)
            H == new.shape[1]
            W == new.shape[2]
            inside(i) == Burned(union, ((i - 1) \div W) + 1, ((i - 1) % W) + 1,
                                FromBounds(shp[2], shp[1]), v2r.all_touched)
        IN /\ DOMAIN new.data = DOMAIN base
           /\ \A i \in DOMAIN base :
                new.data[i] = IF union # {} /\ inside(i)
                              THEN IF v2r.merge_alg = "add"
                                   THEN (base[i] + v2r.raster_value) % Uint8Modulus
                                   ELSE v2r.raster_value
                              ELSE base[i]]_vars

\* C2 witness: two overlapping polygons were burned with merge algorithm add
\* and a cell of the overlap holds the inside value once
C2_Witness ==
    /\ op = "v2r_execute" /\ err = NoError /\ runs = 1
    /\ v2r.merge_alg = "add"
    /\ Len(v2r.vector_data) = 2
    /\ v2r.vector_data[1] # v2r.vector_data[2]
    /\ eopatch.features[TargetKey].shape = <<2, 2, 1>>
    /\ \E c \in v2r.vector_data[1] \cap v2r.vector_data[2] \cap WindowCols :
          /\ PixelCols(c, FromBounds(2, 2)) = {c}
          /\ eopatch.features[TargetKey].data[c] = v2r.raster_value

\* a second execute of the same task right after a successful first one
SecondExecute == op = "v2r_execute" /\ err = NoError /\ V2RExecuted

C7_UnresolvedShapeFailsFirst ==
    [][(V2RExecuted /\ ~ShapeResolvable(v2r, eopatch))
       => err' = "ValueError" /\ eopatch' = eopatch]_vars

\* C7 witness: execute of a task with intersecting polygons failed on the
\* shape and the target does not exist
C7_Witness ==
    /\ op = "v2r_execute" /\ err = "ValueError"
    /\ ClippedUnion(v2r) # {}
    /\ ~ShapeResolvable(v2r, eopatch)
    /\ TargetKey \notin DOMAIN eopatch.features

\* C9: when no polygon intersects the bounding box (and the shape resolves),
\* execute raises no error, leaves a pre-existing target grid unchanged in
\* shape and in every cell, and creates a missing target with every cell equal
\* to the outside value.
C9_EmptySafe ==
    [][(V2RExecuted /\ ClippedUnion(v2r) = {} /\ ShapeResolvable(v2r, eopatch)) =>
        /\ err' = NoError
        /\ TargetKey \in DOMAIN eopatch'.features
        /\ IF TargetKey \in DOMAIN eopatch.features
           THEN eopatch'.features[TargetKey] = eopatch.features[TargetKey]
           ELSE \A i \in DOMAIN eopatch'.features[TargetKey].data :
                   eopatch'.features[TargetKey].data[i] = v2r.no_data_value]_vars

-----------------------------------------------------------------------------
(* Claims about RasterToVector *)

DiscreteSpatialKinds == {"mask", "mask_timeless"}

VectorKey(f) == <<IF f.ft = "mask_timeless" THEN "vector_timeless" ELSE "vector", f.new_name>>

\* the destination table of feature f has been written
Written(f) == VectorKey(f) \in DOMAIN eopatch.features

\* the raster of feature f as the task traces it (after the optional cast)
Traced(f) ==
    LET a == eopatch.features[<<f.ft, f.name>>]
    IN IF r2v.raster_dtype = "uint8"
       THEN [a EXCEPT !.data = [i \in DOMAIN a.data |-> a.data[i] % Uint8Modulus],
                      !.dtype = "uint8"]
       ELSE a

\* the (height, width, channels) slices of the raster of f, in time order
SlicesOf(f) ==
    IF f.ft = "mask_timeless" THEN <<Traced(f)>>
    ELSE [t \in 1..Traced(f).shape[1] |-> TimeSlice(Traced(f), t)]

\* the value of pixel p of channel ch of a slice
CellValue(slice, p, ch) ==
    slice.data[((p[1] - 1) * slice.shape[2] + (p[2] - 1)) * slice.shape[3] + ch]

InList(v, list) == \E k \in 1..Len(list) : list[k] = v

\* C4: with a value filter V (any finite list, the empty list included) every
\* row of every table produced has a value in V, and the component behind a
\* row covers no cell whose value is outside V.
C4_FilterContainment ==
    (op = "r2v_execute" /\ r2v.values.given /\ r2v.value_column_name # NoneValue) =>
        \A k \in 1..Len(r2v.features) :
            LET f == r2v.features[k]
            IN Written(f) =>
                 \A i \in 1..Len(eopatch.features[VectorKey(f)].rows) :
                    LET row == eopatch.features[VectorKey(f)].rows[i]
                    IN /\ InList(row.value, r2v.values.list)
                       /\ \E t \in 1..Len(SlicesOf(f)) :
                            \E ch \in 1..SlicesOf(f)[t].shape[3] :
                               \A p \in row.geometry :
                                  InList(CellValue(SlicesOf(f)[t], p, ch), r2v.values.list)

\* the rows expected of one channel of a slice: its components in discovery
\* order, each with its value (if the value column is requested) and the
\* timestamp of the slice
ChannelRows(slice, ch, timestamp) ==
    LET found == Trace(1, Channel(slice, ch), MaskChannel(BuildMask(r2v, slice), ch),
                       r2v.connectivity, {}, <<>>)
    IN [i \in 1..Len(found) |->
          [geometry |-> found[i].geometry,
           value |-> IF r2v.value_column_name # NoneValue THEN found[i].value ELSE NoValue,
           timestamp |-> timestamp]]

RECURSIVE SliceRows(_, _, _)
SliceRows(slice, ch, timestamp) ==
    IF ch > slice.shape[3] THEN <<>>
    ELSE ChannelRows(slice, ch, timestamp) \o SliceRows(slice, ch + 1, timestamp)

RECURSIVE TimeRows(_, _)
TimeRows(f, t) ==
    IF t > Len(SlicesOf(f)) THEN <<>>
    ELSE SliceRows(SlicesOf(f)[t], 1, eopatch.timestamp[t]) \o TimeRows(f, t + 1)

\* C5: the table written for a time-varying feature lists its rows in (time
\* index ascending, channel ascending, discovery order within a slice) order,
\* every row carries the host timestamp of its slice, and a slice without rows
\* contributes nothing.
C5_TimeOrdering ==
    op = "r2v_execute" =>
        \A k \in 1..Len(r2v.features) :
            LET f == r2v.features[k]
            IN (f.ft = "mask" /\ Written(f)) =>
                 LET rows == eopatch.features[VectorKey(f)].rows
                 IN /\ rows = TimeRows(f, 1)
                    /\ \A i \in 1..Len(rows) : \A j \in i..Len(rows) :
                          rows[i].timestamp <= rows[j].timestamp
                    /\ \A i \in 1..Len(rows) :
                          \E t \in 1..Len(SlicesOf(f)) :
                             /\ rows[i].timestamp = eopatch.timestamp[t]
                             /\ \E ch \in 1..SlicesOf(f)[t].shape[3] :
                                   \A p \in rows[i].geometry :
                                      CellValue(SlicesOf(f)[t], p, ch)
                                         = CellValue(SlicesOf(f)[t],
                                                     CHOOSE q \in rows[i].geometry : TRUE, ch)

\* C5 witness: a three-slice feature was vectorized, its first and third
\* slices gave rows and its second slice gave none
C5_Witness ==
    /\ op = "r2v_execute" /\ err = NoError
    /\ <<"vector", "VB">> \in DOMAIN eopatch.features
    /\ eopatch.features[<<"mask", "B">>].shape[1] = 3
    /\ {eopatch.features[<<"vector", "VB">>].rows[i].timestamp :
          i \in 1..Len(eopatch.features[<<"vector", "VB">>].rows)}
         = {eopatch.timestamp[1], eopatch.timestamp[3]}

\* C6: when execute fails on one of its features the host is as it was before
\* the call: it holds none of the destination features of the call.
C6_NoPartialCommit ==
    [][(op' = "r2v_execute" /\ err' # NoError) => eopatch' = eopatch]_vars

\* C8: a constructor call fails with a configuration error exactly when a
\* requested feature is not of a spatial discrete kind, it creates no task and
\* writes nothing to the host, and execute takes up accepted kinds only.
C8_OnlySpatialDiscrete ==
    /\ op = "r2v_init" =>
         /\ (err = "ValueError") <=> (\E i \in 1..Len(args) : args[i].ft \notin DiscreteSpatialKinds)
         /\ (err = "ValueError") <=> (r2v = NoTask)
         /\ \A key \in DOMAIN eopatch.features : key[1] \notin {"vector", "vector_timeless"}
    /\ r2v # NoTask => \A i \in 1..Len(r2v.features) : r2v.features[i].ft \in DiscreteSpatialKinds
    /\ visited \subseteq DiscreteSpatialKinds

\* C8 witness: a constructor call with a feature of another kind was refused
C8_Witness ==
    /\ op = "r2v_init" /\ err = "ValueError" /\ r2v = NoTask
    /\ \E i \in 1..Len(args) : args[i].ft = "data"
    /\ \E i \in 1..Len(args) : args[i].ft = "mask"

\* the connected components of one channel of a slice, as a set
ComponentSet(slice, ch) ==
    LET img == Channel(slice, ch)
        msk == MaskChannel(BuildMask(r2v, slice), ch)
    IN {Component(p, img, msk, r2v.connectivity) : p \in Unmasked(img, msk)}

RECURSIVE SumSeq(_)
SumSeq(q) == IF q = <<>> THEN 0 ELSE Head(q) + SumSeq(Tail(q))

\* C10: the rows of a slice are the connected components of its channels,
\* each channel counted on its own: the number of rows is the sum over the
\* channels of the channel's components, and two channels of identical
\* pattern give two rows per component.
C10_ChannelIndependence ==
    (op = "r2v_execute" /\ err = NoError) =>
        \A k \in 1..Len(r2v.features) :
            LET f == r2v.features[k]
                rows == eopatch.features[VectorKey(f)].rows
                slices == SlicesOf(f)
                perSlice(t) == SumSeq([ch \in 1..slices[t].shape[3] |->
                                          Cardinality(ComponentSet(slices[t], ch))])
            IN /\ Len(rows) = SumSeq([t \in 1..Len(slices) |-> perSlice(t)])
               /\ (Len(slices) = 1 /\ slices[1].shape[3] = 2
                   /\ Channel(slices[1], 1) = Channel(slices[1], 2)) =>
                     \A comp \in ComponentSet(slices[1], 1) :
                        Cardinality({i \in 1..Len(rows) : rows[i].geometry = comp}) = 2

\* C10 witness: a two-channel raster with the same two-component pattern on
\* both channels was vectorized into four rows
C10_Witness ==
    /\ op = "r2v_execute" /\ err = NoError
    /\ <<"vector_timeless", "VA">> \in DOMAIN eopatch.features
    /\ eopatch.features[<<"mask_timeless", "A">>].shape = <<1, 2, 2>>
    /\ Channel(eopatch.features[<<"mask_timeless", "A">>], 1)
         = Channel(eopatch.features[<<"mask_timeless", "A">>], 2)
    /\ Len(eopatch.features[<<"vector_timeless", "VA">>].rows) = 4

====
